---------------------------- MODULE Spec2Model ----------------------------
(***************************************************************************)
(* A model of the rain-viewer client library (src/src/lib.rs,              *)
(* src/src/error.rs): the tile request arguments, their validation and     *)
(* setters, the colour code conversion, and the two request functions      *)
(* available() and get_tile() against a nondeterministic HTTP transport.   *)
(*                                                                         *)
(* Representation.                                                         *)
(*  - A u32 is a record [hi, lo] of two 16-bit limbs (value hi*2^16 + lo), *)
(*    because the model checker's integers are 32-bit signed and the       *)
(*    interesting values (2^31, 2^32 - 1, the wrap of 2^32) do not fit.    *)
(*  - Text (String) is a sequence of fragments; everything the URL         *)
(*    formatter writes is one character per fragment.                      *)
(*  - An Option / "nothing yet" is a set with at most one element.         *)
(***************************************************************************)
EXTENDS Integers, Sequences, FiniteSets, TLC

VARIABLES
    overflow_checks, \* build profile: are arithmetic overflow checks compiled in
    args,            \* the RequestArguments produced by the latest new_tile, as mutated since
    maps,            \* the AvailableData returned by the latest successful available()
    ret              \* the latest call: its operation, inputs, requests issued and outcome

vars == <<overflow_checks, args, maps, ret>>

----------------------------------------------------------------------------
(* Bounds of the model *)

\* the largest zoom input
MaxZoom == 33

----------------------------------------------------------------------------
(* u32 arithmetic *)

\* 2^16, the limb base of the u32 representation
Limb == 65536

U32 == [hi : 0..(Limb - 1), lo : 0..(Limb - 1)]

\* the u32 of a natural number below 2^31
U32Of(n) == [hi |-> n \div Limb, lo |-> n % Limb]

U32Zero == U32Of(0)

U32Max == [hi |-> Limb - 1, lo |-> Limb - 1]

\* a < b on u32
U32Lt(a, b) == a.hi < b.hi \/ (a.hi = b.hi /\ a.lo < b.lo)

\* Variant of the range comparison: a > b, the bound itself let through
U32Gt(a, b) == U32Lt(b, a)

\* a >= b on u32
U32Ge(a, b) == ~U32Lt(a, b)

\* 2u32.pow(e): the power wrapped to 32 bits, and whether it overflowed them.
\* 2^e has the single bit e set; the bits from 32 up are lost.
PowTwo(e) ==
    IF e < 16 THEN [val |-> [hi |-> 0, lo |-> 2 ^ e], overflow |-> FALSE]
    ELSE IF e < 32 THEN [val |-> [hi |-> 2 ^ (e - 16), lo |-> 0], overflow |-> FALSE]
    ELSE [val |-> [hi |-> 0, lo |-> 0], overflow |-> TRUE]

\* v - 1: the wrapped difference and whether it underflowed
SubOne(v) ==
    IF v.lo > 0 THEN [val |-> [hi |-> v.hi, lo |-> v.lo - 1], overflow |-> FALSE]
    ELSE IF v.hi > 0 THEN [val |-> [hi |-> v.hi - 1, lo |-> Limb - 1], overflow |-> FALSE]
    ELSE [val |-> U32Max, overflow |-> TRUE]

\* the exponent a (small) u32 zoom stands for
ExpOf(zoom) == zoom.hi * Limb + zoom.lo

----------------------------------------------------------------------------
(* Display: decimal formatting of a u32, one character per fragment *)

DigitChar(d) ==
    CASE d = 0 -> "0" [] d = 1 -> "1" [] d = 2 -> "2" [] d = 3 -> "3" [] d = 4 -> "4"
      [] d = 5 -> "5" [] d = 6 -> "6" [] d = 7 -> "7" [] d = 8 -> "8" [] d = 9 -> "9"

\* v / 10 and v % 10 by long division over the limbs
DivTen(v) ==
    LET r1  == v.hi % 10
        mid == r1 * Limb + v.lo
    IN  [quot |-> [hi |-> v.hi \div 10, lo |-> mid \div 10], rem |-> mid % 10]

\* format!("{}", v) for a u32
RECURSIVE Display(_)
Display(v) ==
    LET d == DivTen(v)
    IN  IF d.quot = U32Zero THEN <<DigitChar(d.rem)>>
        ELSE Display(d.quot) \o <<DigitChar(d.rem)>>

----------------------------------------------------------------------------
(* Option and Result *)

None == {}

Some(v) == {v}

Ok(v) == [tag |-> "Ok", val |-> Some(v), err |-> None]

Err(e) == [tag |-> "Err", val |-> None, err |-> Some(e)]

\* the call unwound with a panic: it returned nothing
Panicked == [tag |-> "Panic", val |-> None, err |-> None]

----------------------------------------------------------------------------
(* ColorKind and its u32 code *)

ColorKind ==
    {"BlackAndWhite", "Original", "UniversalBlue", "Titan", "TheWeatherChannel",
     "Meteored", "NexradLevelIII", "RainbowSelexIS", "DarkSky"}

\* Variant of the conversion: the codes of Titan and TheWeatherChannel exchanged
ColorCodeExchanged(color) ==
    CASE color = "BlackAndWhite"     -> 0
      [] color = "Original"          -> 1
      [] color = "UniversalBlue"     -> 2
      [] color = "Titan"             -> 4
      [] color = "TheWeatherChannel" -> 3
      [] color = "Meteored"          -> 5
      [] color = "NexradLevelIII"    -> 6
      [] color = "RainbowSelexIS"    -> 7
      [] color = "DarkSky"           -> 8

ColorCode(color) ==
    CASE color = "BlackAndWhite"     -> 0
      [] color = "Original"          -> 1
      [] color = "UniversalBlue"     -> 2
      [] color = "Titan"             -> 3
      [] color = "TheWeatherChannel" -> 4
      [] color = "Meteored"          -> 5
      [] color = "NexradLevelIII"    -> 6
      [] color = "RainbowSelexIS"    -> 7
      [] color = "DarkSky"           -> 8

----------------------------------------------------------------------------
(* ParameterError *)

InvalidSize(value, msg) == [kind |-> "InvalidSize", value |-> value, msg |-> msg]

XOutOfRange(value, msg) == [kind |-> "XOutOfRange", value |-> value, msg |-> msg]

YOutOfRange(value, msg) == [kind |-> "YOutOfRange", value |-> value, msg |-> msg]

----------------------------------------------------------------------------
(* RequestArguments *)

TileArguments(size, x, y, zoom, color, smooth, snow) ==
    [size |-> size, x |-> x, y |-> y, zoom |-> zoom,
     color |-> color, smooth |-> smooth, snow |-> snow]

\* format!("With a zoom of {}, the max value for <axis> is {}", zoom, max_coord - 1)
RangeMessage(axis, zoom, max_coord) ==
    <<"With a zoom of ">> \o Display(zoom) \o <<", the max value for ", axis, " is ">>
        \o Display(SubOne(max_coord).val)

\* Variant of new_tile: y is checked before x
new_tile_y_first(x, y, zoom, checks) ==
    LET p         == PowTwo(ExpOf(zoom))
        max_coord == p.val
    IN  IF p.overflow /\ checks THEN Panicked
        ELSE IF U32Lt(y, max_coord) = FALSE THEN
            IF SubOne(max_coord).overflow /\ checks THEN Panicked
            ELSE Err(YOutOfRange(y, RangeMessage("y", zoom, max_coord)))
        ELSE IF U32Lt(x, max_coord) = FALSE THEN
            IF SubOne(max_coord).overflow /\ checks THEN Panicked
            ELSE Err(XOutOfRange(x, RangeMessage("x", zoom, max_coord)))
        ELSE Ok(TileArguments(U32Of(256), x, y, zoom, "UniversalBlue", TRUE, TRUE))

\* RequestArguments::new_tile(x, y, zoom) in a build with (checks) or without
\* overflow checks
new_tile(x, y, zoom, checks) ==
    LET p         == PowTwo(ExpOf(zoom))
        max_coord == p.val
    IN  IF p.overflow /\ checks THEN Panicked
        ELSE IF U32Ge(x, max_coord) THEN
            IF SubOne(max_coord).overflow /\ checks THEN Panicked
            ELSE Err(XOutOfRange(x, RangeMessage("x", zoom, max_coord)))
        ELSE IF U32Ge(y, max_coord) THEN
            IF SubOne(max_coord).overflow /\ checks THEN Panicked
            ELSE Err(YOutOfRange(y, RangeMessage("y", zoom, max_coord)))
        ELSE Ok(TileArguments(U32Of(256), x, y, zoom, "UniversalBlue", TRUE, TRUE))

\* Variant of set_size: the size is stored before it is validated
set_size_store_first(tile, size) ==
    IF size = U32Of(256) \/ size = U32Of(512)
    THEN [out |-> Ok([tile EXCEPT !.size = size]), tile |-> [tile EXCEPT !.size = size]]
    ELSE [out  |-> Err(InvalidSize(size, <<"Image size must be either 256 or 512">>)),
          tile |-> [tile EXCEPT !.size = size]]

\* Variant of set_size: the size is compared after truncation to 16 bits
set_size_truncated(tile, size) ==
    IF size.lo = 256 \/ size.lo = 512
    THEN [out |-> Ok([tile EXCEPT !.size = size]), tile |-> [tile EXCEPT !.size = size]]
    ELSE [out  |-> Err(InvalidSize(size, <<"Image size must be either 256 or 512">>)),
          tile |-> tile]

\* RequestArguments::set_size(size) on tile: the outcome and the tile afterwards
set_size(tile, size) ==
    IF size = U32Of(256) \/ size = U32Of(512)
    THEN [out |-> Ok([tile EXCEPT !.size = size]), tile |-> [tile EXCEPT !.size = size]]
    ELSE [out  |-> Err(InvalidSize(size, <<"Image size must be either 256 or 512">>)),
          tile |-> tile]

\* Variant of set_smooth: it writes the snow field
set_smooth_into_snow(tile, smooth) == [tile EXCEPT !.snow = smooth]

set_smooth(tile, smooth) == [tile EXCEPT !.smooth = smooth]

set_snow(tile, snow) == [tile EXCEPT !.snow = snow]

set_color(tile, color) == [tile EXCEPT !.color = color]

----------------------------------------------------------------------------
(* Inputs of the argument operations *)

\* zoom inputs: the tests' zooms (2, 6), the smallest, and the ones around the
\* width of u32
ZoomVals == {U32Of(z) : z \in {0, 1, 2, 6} \cup (31..MaxZoom)}

\* coordinate inputs: the tests' values and the ones around 2^31 and 2^32
CoordVals ==
    {U32Of(0), U32Of(1), U32Of(4), U32Of(40),
     [hi |-> 32767, lo |-> 65535], [hi |-> 32768, lo |-> 0], U32Max}

\* size inputs: the two valid sizes, the tests' 100, 2^16 + 256 and u32::MAX
SizeVals ==
    {U32Of(256), U32Of(512), U32Of(100), [hi |-> 1, lo |-> 256], U32Max}

----------------------------------------------------------------------------
(* The state after construction: no call made yet *)

NoCall == [op |-> "none"]

Init ==
    /\ overflow_checks \in BOOLEAN
    /\ args = None
    /\ maps = None
    /\ ret = NoCall

----------------------------------------------------------------------------
(* The argument operations as steps of the caller *)

\* let args = RequestArguments::new_tile(x, y, zoom), by a caller that holds no
\* arguments yet: it holds the new arguments when the call returned Ok and still
\* none otherwise
NewTile(X, Y, Z) ==
    /\ args = None
    /\ \E x \in X, y \in Y, zoom \in Z :
        LET out == new_tile(x, y, zoom, overflow_checks)
        IN  /\ args' = out.val
            /\ ret' = [op |-> "new_tile", x |-> x, y |-> y, zoom |-> zoom, out |-> out]
    /\ UNCHANGED <<overflow_checks, maps>>

\* args.set_size(size)
SetSize ==
    /\ args # None
    /\ \E tile \in args, size \in SizeVals :
        LET r == set_size(tile, size)
        IN  /\ args' = Some(r.tile)
            /\ ret' = [op |-> "set_size", size |-> size, out |-> r.out]
    /\ UNCHANGED <<overflow_checks, maps>>

\* args.set_smooth(smooth)
SetSmooth ==
    /\ args # None
    /\ \E tile \in args, smooth \in BOOLEAN :
        /\ args' = Some(set_smooth(tile, smooth))
        /\ ret' = [op |-> "set_smooth", smooth |-> smooth]
    /\ UNCHANGED <<overflow_checks, maps>>

\* args.set_snow(snow)
SetSnow ==
    /\ args # None
    /\ \E tile \in args, snow \in BOOLEAN :
        /\ args' = Some(set_snow(tile, snow))
        /\ ret' = [op |-> "set_snow", snow |-> snow]
    /\ UNCHANGED <<overflow_checks, maps>>

\* args.set_color(color)
SetColor ==
    /\ args # None
    /\ \E tile \in args, color \in ColorKind :
        /\ args' = Some(set_color(tile, color))
        /\ ret' = [op |-> "set_color", color |-> color]
    /\ UNCHANGED <<overflow_checks, maps>>

\* The life of one RequestArguments value: construction and the four setters
Next ==
    \/ NewTile(CoordVals, CoordVals, ZoomVals)
    \/ SetSize
    \/ SetSmooth
    \/ SetSnow
    \/ SetColor

Spec == Init /\ [][Next]_vars

----------------------------------------------------------------------------
(* Error, the library's error type *)

\* Error::Reqwest: the transport failed
Reqwest == [kind |-> "Reqwest", status |-> None]

\* Error::Json: serde_json rejected the body
Json == [kind |-> "Json", status |-> None]

\* Error::Http(status)
Http(status) == [kind |-> "Http", status |-> Some(status)]

----------------------------------------------------------------------------
(* The HTTP transport: what one GET can come back with.  `client.get(url)    *)
(* .send().await` either fails or yields a response with a status; reading   *)
(* the response's body (text() / bytes()) either fails or yields it.         *)

\* reqwest::StatusCode::OK
StatusOK == 200

\* statuses a server may answer with: OK, another success, a failure
Statuses == {StatusOK, 204, 404}

SendFailed == [sent |-> FALSE, status |-> None, body |-> None]

\* a response whose body arrives as `content`
Response(status, content) == [sent |-> TRUE, status |-> Some(status), body |-> Some(content)]

\* a response whose body cannot be read
ResponseBodyLost(status) == [sent |-> TRUE, status |-> Some(status), body |-> None]

----------------------------------------------------------------------------
(* Frame, AvailableData and the wire format of the manifest *)

\* From<RawFrame> for Frame: the unix seconds become a date (days since the
\* epoch) and a time of day, the path is moved over
FrameFrom(raw) ==
    [time |-> [days |-> raw.time \div 86400, secs |-> raw.time % 86400], path |-> raw.path]

\* v.into_iter().map(|r| r.into()).collect()
FramesFrom(raws) == [i \in 1..Len(raws) |-> FrameFrom(raws[i])]

\* serde_json::from_str::<RawAvailableData>(text).  A body is text that is not
\* JSON, or a JSON document (a record); the derived Deserialize wants every
\* field of RawAvailableData, Radar and Satellite and ignores the others.
from_str(text) ==
    IF ~text.json THEN Err(Json)
    ELSE IF ~({"version", "generated", "host", "radar", "satellite"} \subseteq DOMAIN text.doc)
        THEN Err(Json)
    ELSE IF ~({"past", "nowcast"} \subseteq DOMAIN text.doc.radar)
        THEN Err(Json)
    ELSE IF ~({"infrared"} \subseteq DOMAIN text.doc.satellite)
        THEN Err(Json)
    ELSE Ok(text.doc)

\* the AvailableData built from the raw manifest
AvailableData(raw) ==
    [host               |-> raw.host,
     past_radar         |-> FramesFrom(raw.radar.past),
     nowcast_radar      |-> FramesFrom(raw.radar.nowcast),
     infrared_satellite |-> FramesFrom(raw.satellite.infrared)]

----------------------------------------------------------------------------
(* WeatherRequester *)

ManifestUrl == <<"https://api.rainviewer.com/public/weather-maps.json">>

\* WeatherRequester::available() when its GET comes back with `reply`: the
\* URLs it requested and what it returned
available(reply) ==
    LET requests == <<ManifestUrl>>
    IN  IF ~reply.sent THEN [requests |-> requests, out |-> Err(Reqwest)]
        ELSE IF reply.body = None THEN [requests |-> requests, out |-> Err(Reqwest)]
        ELSE LET raw == from_str(CHOOSE b \in reply.body : TRUE)
             IN  IF raw.tag = "Err" THEN [requests |-> requests, out |-> raw]
                 ELSE [requests |-> requests,
                       out |-> Ok(AvailableData(CHOOSE r \in raw.val : TRUE))]

\* `b as u8` for a bool
BoolAsU8(b) == IF b THEN U32Of(1) ELSE U32Of(0)

\* format!("{}_{}", args.smooth as u8, args.snow as u8)
Options(tile) == Display(BoolAsU8(tile.smooth)) \o <<"_">> \o Display(BoolAsU8(tile.snow))

\* Variant of the URL: y is written before x
TileUrlYBeforeX(host, path, tile) ==
    host \o <<"/">> \o path
         \o <<"/">> \o Display(tile.size)
         \o <<"/">> \o Display(tile.zoom)
         \o <<"/">> \o Display(tile.y)
         \o <<"/">> \o Display(tile.x)
         \o <<"/">> \o Display(U32Of(ColorCode(tile.color)))
         \o <<"/">> \o Options(tile)
         \o <<".", "p", "n", "g">>

\* format!("{}/{}/{}/{}/{}/{}/{}/{}.png", maps.host, frame.path, args.size,
\*         args.zoom, args.x, args.y, color_val, options)
TileUrl(host, path, tile) ==
    host \o <<"/">> \o path
         \o <<"/">> \o Display(tile.size)
         \o <<"/">> \o Display(tile.zoom)
         \o <<"/">> \o Display(tile.x)
         \o <<"/">> \o Display(tile.y)
         \o <<"/">> \o Display(U32Of(ColorCode(tile.color)))
         \o <<"/">> \o Options(tile)
         \o <<".", "p", "n", "g">>

\* Variant of get_tile: every success status (2xx) is taken for OK
get_tile_any_success(m, frame, tile, reply) ==
    LET requests == <<TileUrl(m.host, frame.path, tile)>>
    IN  IF ~reply.sent THEN [requests |-> requests, out |-> Err(Reqwest)]
        ELSE IF \E st \in reply.status : st >= 200 /\ st <= 299 THEN
            IF reply.body = None THEN [requests |-> requests, out |-> Err(Reqwest)]
            ELSE [requests |-> requests, out |-> Ok(CHOOSE b \in reply.body : TRUE)]
        ELSE [requests |-> requests, out |-> Err(Http(CHOOSE st \in reply.status : TRUE))]

\* WeatherRequester::get_tile(maps, frame, args) when its GET comes back with
\* `reply`: the URLs it requested and what it returned
get_tile(m, frame, tile, reply) ==
    LET requests == <<TileUrl(m.host, frame.path, tile)>>
    IN  IF ~reply.sent THEN [requests |-> requests, out |-> Err(Reqwest)]
        ELSE IF reply.status = Some(StatusOK) THEN
            IF reply.body = None THEN [requests |-> requests, out |-> Err(Reqwest)]
            ELSE [requests |-> requests, out |-> Ok(CHOOSE b \in reply.body : TRUE)]
        ELSE [requests |-> requests, out |-> Err(Http(CHOOSE st \in reply.status : TRUE))]

----------------------------------------------------------------------------
(* Inputs of the request operations *)

\* frames on the wire
RawFrame1 == [time |-> 0, path |-> <<"/", "p">>]

RawFrame2 == [time |-> 86401, path |-> <<"q", "/", "r">>]

\* a complete manifest document
ManifestDoc(host, past, nowcast, infrared) ==
    [version |-> <<"2.0">>, generated |-> 86401, host |-> host,
     radar |-> [past |-> past, nowcast |-> nowcast],
     satellite |-> [infrared |-> infrared]]

\* bodies the manifest endpoint may send: text that is not JSON, a manifest
\* without its host, and two complete manifests
ManifestBodies ==
    {[json |-> FALSE, doc |-> [message |-> <<>>]],
     [json |-> TRUE,
      doc |-> [version |-> <<"2.0">>, generated |-> 0,
               radar |-> [past |-> <<>>, nowcast |-> <<>>],
               satellite |-> [infrared |-> <<>>]]],
     [json |-> TRUE, doc |-> ManifestDoc(<<"h">>, <<RawFrame1, RawFrame2>>, <<>>, <<RawFrame2>>)],
     [json |-> TRUE, doc |-> ManifestDoc(<<"g", "/", "t">>, <<RawFrame2>>, <<RawFrame1>>, <<>>)]}

ManifestReplies ==
    {SendFailed}
        \cup {ResponseBodyLost(st) : st \in Statuses}
        \cup {Response(st, b) : st \in Statuses, b \in ManifestBodies}

\* bodies the tile endpoint may send: a PNG signature, something else
TileBodies == {<<137, 80, 78, 71>>, <<60>>}

TileReplies ==
    {SendFailed}
        \cup {ResponseBodyLost(st) : st \in Statuses}
        \cup {Response(st, b) : st \in Statuses, b \in TileBodies}

\* the frames a caller can take from the manifest it holds
FramesOf(m) ==
    {m.past_radar[i] : i \in DOMAIN m.past_radar}
        \cup {m.nowcast_radar[i] : i \in DOMAIN m.nowcast_radar}
        \cup {m.infrared_satellite[i] : i \in DOMAIN m.infrared_satellite}

\* coordinates and zooms of the tiles requested: the documented (4, 7, 6) and
\* the largest x a u32 power allows
TileXs == {U32Of(4), [hi |-> 32767, lo |-> 65535]}

TileYs == {U32Of(7)}

TileZooms == {U32Of(6), U32Of(31)}

----------------------------------------------------------------------------
(* The request operations as steps of the caller *)

\* let maps = req.available().await: the caller holds the new manifest when the
\* call returned Ok and keeps what it held otherwise
Available ==
    \E reply \in ManifestReplies :
        LET r == available(reply)
        IN  /\ maps' = IF r.out.tag = "Ok" THEN r.out.val ELSE maps
            /\ ret' = [op |-> "available", reply |-> reply,
                       requests |-> r.requests, out |-> r.out]
            /\ UNCHANGED <<overflow_checks, args>>

\* req.get_tile(&maps, frame, args).await with a frame of the manifest held
GetTile ==
    /\ maps # None
    /\ args # None
    /\ \E m \in maps, tile \in args :
        \E frame \in FramesOf(m), reply \in TileReplies :
            LET r == get_tile(m, frame, tile, reply)
            IN  ret' = [op |-> "get_tile", frame |-> frame, reply |-> reply,
                        color_val |-> ColorCode(tile.color),
                        requests |-> r.requests, out |-> r.out]
    /\ UNCHANGED <<overflow_checks, args, maps>>

\* The whole library: arguments are built and changed, the manifest is fetched,
\* tiles are fetched
NextNet ==
    \/ NewTile(TileXs, TileYs, TileZooms)
    \/ SetSize
    \/ SetSmooth
    \/ SetSnow
    \/ SetColor
    \/ Available
    \/ GetTile

SpecNet == Init /\ [][NextNet]_vars

----------------------------------------------------------------------------
(* Vocabulary of the properties *)

\* bit k (0..31) of a u32
Bit(v, k) == IF k < 16 THEN (v.lo \div (2 ^ k)) % 2 ELSE (v.hi \div (2 ^ (k - 16))) % 2

\* v < 2^zoom over the integers: v has no bit set at position zoom or above
\* (every u32 is below 2^zoom once zoom >= 32)
BelowPow(v, zoom) == \A k \in ExpOf(zoom)..31 : Bit(v, k) = 0

\* the arguments new_tile(x, y, zoom) is documented to return
DefaultTile(x, y, zoom) ==
    [size |-> [hi |-> 0, lo |-> 256], x |-> x, y |-> y, zoom |-> zoom,
     color |-> "UniversalBlue", smooth |-> TRUE, snow |-> TRUE]

ValidSizes == {[hi |-> 0, lo |-> 256], [hi |-> 0, lo |-> 512]}

\* the latest call was op and returned the error kind carrying value
ReturnedError(kind, value) ==
    /\ ret.out.tag = "Err"
    /\ ret.out.val = {}
    /\ \E e \in ret.out.err : e.kind = kind /\ e.value = value

----------------------------------------------------------------------------
(* C1 - C5, C10: the argument operations, under Spec *)

\* C1: for every zoom (zoom >= 32 included) and every x < 2^zoom, y < 2^zoom,
\* new_tile(x, y, zoom) returns Ok with exactly x, y, zoom, size 256,
\* UniversalBlue, smooth and snow.
C1_NewTileInRangeIsOk ==
    (ret.op = "new_tile" /\ BelowPow(ret.x, ret.zoom) /\ BelowPow(ret.y, ret.zoom))
        => /\ ret.out.tag = "Ok"
           /\ ret.out.val = {DefaultTile(ret.x, ret.y, ret.zoom)}
           /\ args = ret.out.val

\* C2: for every x >= 2^zoom and valid y, new_tile(x, y, zoom) returns the error
\* value XOutOfRange carrying exactly x (no panic, no success), and no arguments
\* are produced.
C2_XOutOfRange ==
    (ret.op = "new_tile" /\ ~BelowPow(ret.x, ret.zoom) /\ BelowPow(ret.y, ret.zoom))
        => /\ ReturnedError("XOutOfRange", ret.x)
           /\ args = {}

\* C2's case: the tests' new_tile(40, 1, 2) has returned
C2_Witness ==
    /\ ret.op = "new_tile"
    /\ ret.x = [hi |-> 0, lo |-> 40]
    /\ ret.y = [hi |-> 0, lo |-> 1]
    /\ ret.zoom = [hi |-> 0, lo |-> 2]
    /\ ret.out.tag = "Err"

\* C3: x is checked before y: x valid and y >= 2^zoom gives YOutOfRange carrying
\* y; x and y both >= 2^zoom gives XOutOfRange, never YOutOfRange.
C3_XBeforeY ==
    ret.op = "new_tile" =>
        /\ (BelowPow(ret.x, ret.zoom) /\ ~BelowPow(ret.y, ret.zoom))
              => ReturnedError("YOutOfRange", ret.y)
        /\ (~BelowPow(ret.x, ret.zoom) /\ ~BelowPow(ret.y, ret.zoom))
              => /\ ReturnedError("XOutOfRange", ret.x)
                 /\ \A e \in ret.out.err : e.kind # "YOutOfRange"

\* C3's case: the tests' new_tile(0, 4, 2) has returned YOutOfRange
C3_Witness ==
    /\ ret.op = "new_tile"
    /\ ret.x = [hi |-> 0, lo |-> 0]
    /\ ret.y = [hi |-> 0, lo |-> 4]
    /\ ret.zoom = [hi |-> 0, lo |-> 2]
    /\ \E e \in ret.out.err : e.kind = "YOutOfRange"

\* C4: whatever setters ran since the successful new_tile, x < 2^zoom,
\* y < 2^zoom and size is 256 or 512.
C4_ArgumentsInvariant ==
    \A a \in args :
        /\ BelowPow(a.x, a.zoom)
        /\ BelowPow(a.y, a.zoom)
        /\ a.size \in ValidSizes

\* C4's case: a set_size has just failed on arguments whose size an earlier
\* set_size changed and whose x is the largest a zoom of 31 allows
C4_Witness ==
    /\ ret.op = "set_size"
    /\ ret.out.tag = "Err"
    /\ \E a \in args :
        /\ a.size = [hi |-> 0, lo |-> 512]
        /\ a.x = [hi |-> 32767, lo |-> 65535]
        /\ a.smooth = FALSE

\* C5, the outcome: set_size(s) returns InvalidSize carrying s exactly when s is
\* neither 256 nor 512; otherwise it returns Ok and size is s.
C5_SetSizeOutcome ==
    ret.op = "set_size" =>
        /\ ret.out.tag \in {"Ok", "Err"}
        /\ (ret.out.tag = "Err") <=> (ret.size \notin ValidSizes)
        /\ (ret.out.tag = "Err") => ReturnedError("InvalidSize", ret.size)
        /\ (ret.out.tag = "Ok") => \A a \in args : a.size = ret.size

\* C5, a failing set_size leaves every field as it was
C5_SetSizeFailureStep ==
    (ret'.op = "set_size" /\ ret'.out.tag = "Err") => args' = args

\* C5, a second set_size(s) after a successful set_size(s) changes nothing
C5_SetSizeTwiceStep ==
    (/\ ret.op = "set_size" /\ ret.out.tag = "Ok"
     /\ ret'.op = "set_size" /\ ret'.size = ret.size)
        => (args' = args /\ ret'.out.tag = "Ok")

\* C5: set_size(s) fails with InvalidSize(s) exactly when s is neither 256 nor
\* 512 and then changes no field; for 256 and 512 it succeeds, sets size, and
\* is idempotent.
C5_SetSize ==
    /\ []C5_SetSizeOutcome
    /\ [][C5_SetSizeFailureStep]_vars
    /\ [][C5_SetSizeTwiceStep]_vars

\* C5's case: the tests' set_size(100) has failed on arguments of size 512
C5_Witness ==
    /\ ret.op = "set_size"
    /\ ret.size = [hi |-> 0, lo |-> 100]
    /\ ret.out.tag = "Err"
    /\ \E a \in args : a.size = [hi |-> 0, lo |-> 512]

\* the fields of a and b agree except possibly on those named in F
SameExcept(a, b, F) ==
    \A f \in {"size", "x", "y", "zoom", "color", "smooth", "snow"} \ F : a[f] = b[f]

\* C10, one step: the setter that ran changed at most its own field
C10_SetterStep ==
    \A a \in args, b \in args' :
        /\ ret'.op = "set_smooth" => (SameExcept(a, b, {"smooth"}) /\ b.smooth = ret'.smooth)
        /\ ret'.op = "set_snow"   => (SameExcept(a, b, {"snow"}) /\ b.snow = ret'.snow)
        /\ ret'.op = "set_color"  => (SameExcept(a, b, {"color"}) /\ b.color = ret'.color)
        /\ ret'.op = "set_size"   => SameExcept(a, b, {"size"})
        /\ (a.x = b.x /\ a.y = b.y /\ a.zoom = b.zoom)

----------------------------------------------------------------------------
(* Vocabulary of the URL properties: reading a URL back *)

\* the positions of the character c in text
Positions(text, c) == {i \in 1..Len(text) : text[i] = c}

\* the k-th (1-based) smallest member of a set of positions
Nth(S, k) == CHOOSE i \in S : Cardinality({j \in S : j < i}) = k - 1

\* the pieces of text between the occurrences of the separator c
SplitAt(text, c) ==
    LET S == Positions(text, c)
        n == Cardinality(S)
        from(k) == IF k = 1 THEN 1 ELSE Nth(S, k - 1) + 1
        to(k)   == IF k = n + 1 THEN Len(text) ELSE Nth(S, k) - 1
    IN  [k \in 1..(n + 1) |-> SubSeq(text, from(k), to(k))]

DigitValue(ch) ==
    CASE ch = "0" -> 0 [] ch = "1" -> 1 [] ch = "2" -> 2 [] ch = "3" -> 3 [] ch = "4" -> 4
      [] ch = "5" -> 5 [] ch = "6" -> 6 [] ch = "7" -> 7 [] ch = "8" -> 8 [] ch = "9" -> 9

IsNumeral(text) ==
    /\ Len(text) >= 1
    /\ \A i \in 1..Len(text) : text[i] \in {"0", "1", "2", "3", "4", "5", "6", "7", "8", "9"}
    /\ (Len(text) > 1 => text[1] # "0")

\* the number a numeral of at most 4 digits stands for
SmallNumber(text) ==
    LET n == Len(text)
        d(i) == IF i <= n THEN DigitValue(text[n + 1 - i]) ELSE 0
    IN  d(1) + 10 * d(2) + 100 * d(3) + 1000 * d(4)

\* the numeral text (at most 10 digits) is the decimal writing of the u32 v:
\* with L the number of its last four digits and H the number of the digits
\* before them, v \div 10^4 = H and v % 10^4 = L
Denotes(text, v) ==
    LET n  == Len(text)
        L  == SmallNumber(SubSeq(text, (IF n > 4 THEN n - 3 ELSE 1), n))
        Hs == IF n > 4 THEN SubSeq(text, 1, n - 4) ELSE <<"0">>
        \* the high numeral has at most 6 digits: below 2^31
        H  == SmallNumber(SubSeq(Hs, (IF Len(Hs) > 4 THEN Len(Hs) - 3 ELSE 1), Len(Hs)))
                + 10000 * (IF Len(Hs) > 4 THEN SmallNumber(SubSeq(Hs, 1, Len(Hs) - 4)) ELSE 0)
        \* v \div 10^4 and v % 10^4 by long division over the limbs
        r1 == v.hi % 10000
        q1 == v.hi \div 10000
        mid == r1 * 65536 + v.lo
    IN  /\ IsNumeral(text)
        /\ n <= 10
        /\ L = mid % 10000
        /\ H = q1 * 65536 + (mid \div 10000)

----------------------------------------------------------------------------
(* C6 - C9: the request operations, under SpecNet *)

\* the colour schemes in the order of their codes 0..8
ColorTable ==
    <<"BlackAndWhite", "Original", "UniversalBlue", "Titan", "TheWeatherChannel",
      "Meteored", "NexradLevelIII", "RainbowSelexIS", "DarkSky">>

ColorNumber(color) == (CHOOSE i \in 1..Len(ColorTable) : ColorTable[i] = color) - 1

Flag(b) == IF b THEN "1" ELSE "0"

\* C6, the shape: the URL get_tile requested is host/path/ followed by six
\* pieces: size, zoom, x, y, the colour code, and smooth_snow.png
C6_UrlShape ==
    ret.op = "get_tile" =>
        \A m \in maps, a \in args :
            LET url    == ret.requests[1]
                prefix == m.host \o <<"/">> \o ret.frame.path \o <<"/">>
                np     == Len(prefix)
                segs   == SplitAt(SubSeq(url, np + 1, Len(url)), "/")
            IN  /\ Len(url) > np
                /\ SubSeq(url, 1, np) = prefix
                /\ Len(segs) = 6
                /\ Denotes(segs[1], a.size)
                /\ Denotes(segs[2], a.zoom)
                /\ Denotes(segs[3], a.x)
                /\ Denotes(segs[4], a.y)
                /\ Denotes(segs[5], [hi |-> 0, lo |-> ColorNumber(a.color)])
                /\ segs[6] = <<Flag(a.smooth), "_", Flag(a.snow), ".", "p", "n", "g">>

\* C6, determinism: two get_tile calls in a row with the same manifest, frame
\* path and arguments request the same URL, whatever the transport answers
C6_SameInputsStep ==
    (/\ ret.op = "get_tile" /\ ret'.op = "get_tile"
     /\ maps' = maps /\ args' = args
     /\ ret'.frame.path = ret.frame.path)
        => ret'.requests = ret.requests

\* C6: the URL get_tile requests is a function of (maps.host, frame.path, args)
\* only and is host/path/size/zoom/x/y/colorCode/smooth_snow.png in that order.
C6_TileUrl == []C6_UrlShape /\ [][C6_SameInputsStep]_vars

\* C6's case: a get_tile with x = 4, y = 7, zoom = 6, smooth off and snow on
\* (so that swapping either pair shows) has requested its URL
C6_Witness ==
    /\ ret.op = "get_tile"
    /\ \E a \in args :
        /\ a.x = [hi |-> 0, lo |-> 4] /\ a.y = [hi |-> 0, lo |-> 7]
        /\ a.zoom = [hi |-> 0, lo |-> 6]
        /\ a.size = [hi |-> 0, lo |-> 512]
        /\ ~a.smooth /\ a.snow
        /\ a.color = "Titan"

StatusIsSuccess(st) == 200 <= st /\ st <= 299

\* the body is JSON holding every field of the manifest
IsManifest(body) ==
    /\ body.json
    /\ {"version", "generated", "host", "radar", "satellite"} \subseteq DOMAIN body.doc

\* C7: available() issues exactly one GET and returns an error whenever the
\* response's status is not a success or its body is not a valid manifest.
C7_AvailableRejects ==
    ret.op = "available" =>
        /\ Len(ret.requests) = 1
        /\ (/\ ret.reply.sent
            /\ \/ \E st \in ret.reply.status : ~StatusIsSuccess(st)
               \/ \E b \in ret.reply.body : ~IsManifest(b))
              => ret.out.tag = "Err"

\* C8 as stated: get_tile issues one GET; on status 200 it returns Ok with the
\* body, on any other status Error::Http with that status.
C8_TileByStatus ==
    ret.op = "get_tile" =>
        /\ Len(ret.requests) = 1
        /\ ret.reply.sent =>
              IF ret.reply.status = {200}
              THEN ret.out.tag = "Ok" /\ ret.out.val # {} /\ ret.out.val = ret.reply.body
              ELSE /\ ret.out.tag = "Err"
                   /\ \A e \in ret.out.err : e.kind = "Http" /\ e.status = ret.reply.status

\* C8 amended: get_tile issues one GET; on status 200 it returns Ok with the
\* body unchanged when the body can be read and Error::Reqwest when it cannot;
\* on any other status Error::Http with that status; never Ok otherwise.
C8_TileByStatusAndBody ==
    ret.op = "get_tile" =>
        /\ Len(ret.requests) = 1
        /\ ret.out.tag \in {"Ok", "Err"}
        /\ ret.out.tag = "Ok" => (ret.reply.sent /\ ret.reply.status = {200})
        /\ ret.reply.sent =>
              IF ret.reply.status = {200}
              THEN IF ret.reply.body # {}
                   THEN ret.out.tag = "Ok" /\ ret.out.val = ret.reply.body
                   ELSE /\ ret.out.tag = "Err"
                        /\ \A e \in ret.out.err : e.kind = "Reqwest"
              ELSE /\ ret.out.tag = "Err"
                   /\ \A e \in ret.out.err : e.kind = "Http" /\ e.status = ret.reply.status

\* C8's case: a get_tile was answered 200 and the body could not be read
C8_Witness ==
    /\ ret.op = "get_tile"
    /\ ret.reply.sent
    /\ ret.reply.status = {200}
    /\ ret.reply.body = {}
    /\ ret.out.tag = "Err"

\* C9: the code of a ColorKind is defined for each of the 9 variants, differs
\* between variants, covers 0..8, and is the variant's place in ColorTable;
\* it is the code get_tile used.
C9_ColorCodes ==
    /\ Cardinality(ColorKind) = 9
    /\ \A i \in 1..Len(ColorTable) : ColorTable[i] \in ColorKind
    /\ \A c \in ColorKind : ColorCode(c) = ColorNumber(c)
    /\ \A c, d \in ColorKind : c # d => ColorCode(c) # ColorCode(d)
    /\ {ColorCode(c) : c \in ColorKind} = 0..8
    /\ ret.op = "get_tile" => \A a \in args : ret.color_val = ColorNumber(a.color)

\* C9's case: get_tile has converted the last variant, DarkSky
C9_Witness ==
    /\ ret.op = "get_tile"
    /\ ret.color_val = 8
    /\ \E a \in args : a.color = "DarkSky"

=============================================================================
